---- MODULE Spec2Model ----
(***************************************************************************)
(* A model of the YNAB e-mail automation: the transaction filters, the     *)
(* category aggregator and the budget status evaluator of                  *)
(* src/ynab_client.py, the report statistics of src/report_generator.py,   *)
(* and the report runs of src/main.py with src/email_sender.py.            *)
(*                                                                         *)
(* Conventions of the model                                                *)
(*  - A Python string is a sequence of one-character strings, so that      *)
(*    str.lower() and the substring test `x in y` are computed.            *)
(*  - A dictionary field that may be absent or None is a record            *)
(*    [k |-> kind, v |-> value] with kind "absent", "null" or the kind of  *)
(*    the value ("str", "int", "list").                                    *)
(*  - A Python float obtained from milliunits is an exact rational         *)
(*    [n |-> numerator, d |-> denominator] in lowest terms; the rounding   *)
(*    of IEEE doubles is not modelled.                                     *)
(***************************************************************************)
EXTENDS Integers, Sequences, FiniteSets, TLC

VARIABLES
    op,                  \* harness: the processor function being called
    pc,                  \* position of the call or of the report run
    today,               \* datetime.now(), as <<year, month, day>>
    transactions,        \* what client.get_transactions returns / the argument
    categories,          \* month_data["categories"] of client.get_month_budget
    threshold,           \* threshold_percent
    filtered,            \* the list a filter returned
    category_totals,     \* the dict aggregate_by_category returned
    category_status,     \* the dict get_category_status returned
    raised,              \* TRUE when the call ended in an exception
    command,             \* sys.argv[1] of main, or "scheduler"
    pending,             \* the report runs main still has to start
    report,              \* the report run in progress
    steps,               \* the steps of the current run completed so far
    bundle,              \* what the report generator handed to the template
    runs,                \* the jobs the scheduler has found due so far
    outbox,              \* the e-mails the SMTP server accepted
    log                  \* the "Error sending ..." lines printed

vars == <<op, pc, today, transactions, categories, threshold, filtered,
          category_totals, category_status, raised, command, pending,
          report, steps, bundle, runs, outbox, log>>

----------------------------------------------------------------------------
(* Python values *)

Str(s) == [k |-> "str", v |-> s]
NullStr == [k |-> "null", v |-> <<>>]
AbsentStr == [k |-> "absent", v |-> <<>>]
Int_(n) == [k |-> "int", v |-> n]
NullInt == [k |-> "null", v |-> 0]
AbsentInt == [k |-> "absent", v |-> 0]
List(l) == [k |-> "list", v |-> l]
NullList == [k |-> "null", v |-> <<>>]
AbsentList == [k |-> "absent", v |-> <<>>]

\* dict.get(key): None when the key is absent
Get(x) == IF x.k = "absent" THEN [x EXCEPT !.k = "null"] ELSE x

\* dict.get(key, default)
GetDefault(x, dflt) == IF x.k = "absent" THEN dflt ELSE x

\* Python truth value of None, a str, an int or a list
Truthy(x) ==
    CASE x.k = "null" -> FALSE
      [] x.k = "absent" -> FALSE
      [] x.k = "int" -> x.v # 0
      [] OTHER -> x.v # <<>>

\* x or dflt
OrElse(x, dflt) == IF Truthy(x) THEN x ELSE dflt

----------------------------------------------------------------------------
(* Strings *)

LowerTable ==
    ("A" :> "a") @@ ("B" :> "b") @@ ("C" :> "c") @@ ("D" :> "d") @@
    ("E" :> "e") @@ ("F" :> "f") @@ ("G" :> "g") @@ ("H" :> "h") @@
    ("I" :> "i") @@ ("J" :> "j") @@ ("K" :> "k") @@ ("L" :> "l") @@
    ("M" :> "m") @@ ("N" :> "n") @@ ("O" :> "o") @@ ("P" :> "p") @@
    ("Q" :> "q") @@ ("R" :> "r") @@ ("S" :> "s") @@ ("T" :> "t") @@
    ("U" :> "u") @@ ("V" :> "v") @@ ("W" :> "w") @@ ("X" :> "x") @@
    ("Y" :> "y") @@ ("Z" :> "z")

\* str.lower()
Lower(s) ==
    [i \in 1..Len(s) |->
        IF s[i] \in DOMAIN LowerTable THEN LowerTable[s[i]] ELSE s[i]]

\* needle in hay
Contains(needle, hay) ==
    \E i \in 0..(Len(hay) - Len(needle)) :
        SubSeq(hay, i + 1, i + Len(needle)) = needle

inflow == <<"i", "n", "f", "l", "o", "w">>
ready_to_assign ==
    <<"r", "e", "a", "d", "y", " ", "t", "o", " ", "a", "s", "s", "i", "g", "n">>
reconciliation ==
    <<"r", "e", "c", "o", "n", "c", "i", "l", "i", "a", "t", "i", "o", "n">>
balance_adjustment ==
    <<"b", "a", "l", "a", "n", "c", "e", " ",
      "a", "d", "j", "u", "s", "t", "m", "e", "n", "t">>
Uncategorized ==
    <<"U", "n", "c", "a", "t", "e", "g", "o", "r", "i", "z", "e", "d">>
Unknown == <<"U", "n", "k", "n", "o", "w", "n">>

----------------------------------------------------------------------------
(* Exact arithmetic for the floats *)

Abs(x) == IF x < 0 THEN -x ELSE x

RECURSIVE GCD(_, _)
GCD(a, b) == IF b = 0 THEN a ELSE GCD(b, a % b)

\* the rational n/d (d # 0) in lowest terms with a positive denominator
Rat(n, d) ==
    LET g == GCD(Abs(n), Abs(d))
        s == IF d < 0 THEN -1 ELSE 1
    IN  [n |-> (s * n) \div g, d |-> (s * d) \div g]

Zero == Rat(0, 1)
RatSub(a, b) == Rat(a.n * b.d - b.n * a.d, a.d * b.d)
RatAdd(a, b) == Rat(a.n * b.d + b.n * a.d, a.d * b.d)
RatMulInt(a, i) == Rat(a.n * i, a.d)
RatDiv(a, b) == Rat(a.n * b.d, a.d * b.n)
RatLt(a, b) == a.n * b.d < b.n * a.d
RatLe(a, b) == a.n * b.d <= b.n * a.d
RatAbs(a) == [n |-> Abs(a.n), d |-> a.d]

\* milliunits per currency unit
Milli == 1000

\* x / 1000
ToMajor(x) == Rat(x, Milli)

----------------------------------------------------------------------------
(* IEEE 754 binary64, for the sums whose order of addition differs *)

\* A double is [s |-> sign, m |-> the 53 bits of the significand, most
\* significant first, e |-> the exponent of the last bit]; m is <<>> for 0.
Precision == 53

F64Zero == [s |-> 0, m |-> <<>>, e |-> 0]

Zeros(k) == [i \in 1..k |-> 0]

RECURSIVE IntBits(_)
IntBits(n) == IF n = 0 THEN <<>> ELSE Append(IntBits(n \div 2), n % 2)

\* the first k bits of r / d after the binary point, for 0 <= r < d
RECURSIVE FracBits(_, _, _)
FracBits(r, d, k) ==
    IF k = 0 THEN <<>>
    ELSE <<IF 2 * r >= d THEN 1 ELSE 0>> \o FracBits((2 * r) % d, d, k - 1)

\* what is left of r / d below those k bits
RECURSIVE FracRest(_, _, _)
FracRest(r, d, k) ==
    IF k = 0 \/ r = 0 THEN r ELSE FracRest((2 * r) % d, d, k - 1)

RECURSIVE StripZeros(_)
StripZeros(b) ==
    IF b # <<>> /\ Head(b) = 0 THEN StripZeros(Tail(b)) ELSE b

\* the carry into bit i of a + b + c, bits of one length
CarryInto(a, b, c, i) ==
    \/ \E j \in (i + 1)..Len(a) :
          /\ a[j] + b[j] = 2
          /\ \A k \in (i + 1)..(j - 1) : a[k] + b[k] = 1
    \/ c = 1 /\ \A k \in (i + 1)..Len(a) : a[k] + b[k] = 1

\* a + b + c for bit strings of one length; the result is one bit longer
AddBits(a, b, c) ==
    [i \in 1..(Len(a) + 1) |->
        IF i = 1
        THEN (IF CarryInto(a, b, c, 0) THEN 1 ELSE 0)
        ELSE (a[i - 1] + b[i - 1]
                + (IF CarryInto(a, b, c, i - 1) THEN 1 ELSE 0)) % 2]

\* the borrow from bit i of a - b, bits of one length
BorrowFrom(a, b, i) ==
    \E j \in (i + 1)..Len(a) :
        /\ a[j] < b[j]
        /\ \A k \in (i + 1)..(j - 1) : a[k] = b[k]

\* a - b for bit strings of one length with a >= b
SubBits(a, b) ==
    [i \in 1..Len(a) |->
        (a[i] - b[i] - (IF BorrowFrom(a, b, i) THEN 1 ELSE 0) + 2) % 2]

\* a < b for bit strings of one length
LessBits(a, b) ==
    \E i \in 1..Len(a) :
        /\ a[i] < b[i]
        /\ \A j \in 1..(i - 1) : a[j] = b[j]

\* round to nearest, ties to even: the double nearest to the number whose
\* bits are `bits` with the last bit worth 2^e, sticky when something that
\* is not 0 lies below them
RoundF64(s, bits, e, sticky) ==
    LET b == StripZeros(bits)
        n == Len(b)
    IN  IF n = 0 THEN F64Zero
        ELSE IF n <= Precision
        THEN [s |-> s, m |-> b \o Zeros(Precision - n),
              e |-> e - (Precision - n)]
        ELSE LET keep == SubSeq(b, 1, Precision)
                 half == b[Precision + 1] = 1
                 more == sticky
                         \/ \E i \in (Precision + 2)..n : b[i] = 1
                 up == half /\ (more \/ keep[Precision] = 1)
                 inc == AddBits(keep, Zeros(Precision), 1)
             IN  IF ~up
                 THEN [s |-> s, m |-> keep, e |-> e + (n - Precision)]
                 ELSE IF inc[1] = 1
                 THEN [s |-> s, m |-> SubSeq(inc, 1, Precision),
                       e |-> e + (n - Precision) + 1]
                 ELSE [s |-> s, m |-> Tail(inc), e |-> e + (n - Precision)]

\* x + y
F64Add(x, y) ==
    IF x.m = <<>> THEN y
    ELSE IF y.m = <<>> THEN x
    ELSE LET e == IF x.e < y.e THEN x.e ELSE y.e
             xa == x.m \o Zeros(x.e - e)
             ya == y.m \o Zeros(y.e - e)
             n == IF Len(xa) < Len(ya) THEN Len(ya) ELSE Len(xa)
             xb == Zeros(n - Len(xa)) \o xa
             yb == Zeros(n - Len(ya)) \o ya
         IN  IF x.s = y.s
             THEN RoundF64(x.s, AddBits(xb, yb, 0), e, FALSE)
             ELSE IF LessBits(xb, yb)
             THEN RoundF64(y.s, SubBits(yb, xb), e, FALSE)
             ELSE RoundF64(x.s, SubBits(xb, yb), e, FALSE)

F64Neg(x) == IF x.m = <<>> THEN x ELSE [x EXCEPT !.s = 1 - @]

\* x - y
F64Sub(x, y) == F64Add(x, F64Neg(y))

GuardBits == 70

\* a / 1000 for an int a: true division rounds the quotient once
F64FromMilli(a) ==
    RoundF64(IF a < 0 THEN 1 ELSE 0,
             IntBits(Abs(a) \div Milli)
                \o FracBits(Abs(a) % Milli, Milli, GuardBits),
             -GuardBits,
             FracRest(Abs(a) % Milli, Milli, GuardBits) # 0)

----------------------------------------------------------------------------
(* The classification tests the filters and the aggregator repeat *)

\* mutant: the test reads another key
is_transfer_wrong_key(t) == Truthy(Get(t.scheduled_transaction_id))

\* if t.get('transfer_account_id')
is_transfer(t) == Truthy(Get(t.transfer_account_id))

\* if t.get("scheduled_transaction_id")
is_scheduled(t) == Truthy(Get(t.scheduled_transaction_id))

\* None.lower() raises AttributeError
LowerRaises(x) == x.k # "str"

\* mutant: t.get('payee_name', ''), which leaves a None as it is
payee_value_default_only(t) == GetDefault(t.payee_name, Str(<<>>))

\* payee_name = t.get('payee_name') or ''
payee_value(t) == OrElse(Get(t.payee_name), Str(<<>>))
payee_name(t) == payee_value(t).v

\* mutant: the second needle is not looked for
is_reconciliation_one_needle(t) ==
    Contains(reconciliation, Lower(payee_name(t)))

\* 'reconciliation' in payee_name.lower() or 'balance adjustment' in ...
is_reconciliation(t) ==
    \/ Contains(reconciliation, Lower(payee_name(t)))
    \/ Contains(balance_adjustment, Lower(payee_name(t)))

\* mutant: the name is not lowered before the test
is_inflow_case_sensitive(name) ==
    \/ Contains(inflow, name)
    \/ Contains(ready_to_assign, name)

\* 'inflow' in name.lower() or 'ready to assign' in name.lower()
is_inflow(name) ==
    \/ Contains(inflow, Lower(name))
    \/ Contains(ready_to_assign, Lower(name))

\* cat_name = t.get('category_name') or ''          (the filters)
filter_cat_value(t) == OrElse(Get(t.category_name), Str(<<>>))
filter_cat_name(t) == filter_cat_value(t).v

\* mutant: the filters' default '' in place of 'Uncategorized'
cat_name_empty_default(t) == OrElse(Get(t.category_name), Str(<<>>)).v

\* cat_name = t.get('category_name') or 'Uncategorized'   (non-split path)
cat_value(t) == OrElse(Get(t.category_name), Str(Uncategorized))
cat_name(t) == cat_value(t).v

\* sub_cat_name = sub.get('category_name') or 'Uncategorized'
sub_cat_value(sub) == OrElse(Get(sub.category_name), Str(Uncategorized))
sub_cat_name(sub) == sub_cat_value(sub).v

\* None / 1000 raises TypeError
AmountRaises(x) == GetDefault(x.amount, Int_(0)).k = "null"

\* amount = t.get('amount', 0) / 1000
amount(t) == ToMajor(GetDefault(t.amount, Int_(0)).v)

\* mutant: abs() around the subtransaction amount
sub_amount_abs(sub) == ToMajor(Abs(GetDefault(sub.amount, Int_(0)).v))

\* sub_amount = sub.get('amount', 0) / 1000
sub_amount(sub) == ToMajor(GetDefault(sub.amount, Int_(0)).v)

\* subtransactions = t.get('subtransactions', []); if subtransactions:
subtransactions(t) == GetDefault(t.subtransactions, List(<<>>))
is_split(t) == Truthy(subtransactions(t))

----------------------------------------------------------------------------
(* aggregate_by_category *)

NoTotals == <<>>

\* mutant: a parent already listed under the category is not counted again
AddContribution_parent_once(ct, name, amt, t) ==
    LET base == IF name \in DOMAIN ct
                THEN ct
                ELSE ct @@ (name :> [total |-> Zero, count |-> 0,
                                     transactions |-> <<>>])
        listed == \E i \in 1..Len(base[name].transactions) :
                      base[name].transactions[i] = t
    IN  [base EXCEPT ![name] =
            [total |-> RatSub(@.total, amt),
             count |-> IF listed THEN @.count ELSE @.count + 1,
             transactions |-> IF listed THEN @.transactions
                              ELSE Append(@.transactions, t)]]

\* create the entry when missing, then total -= amt, count += 1, append t
AddContribution(ct, name, amt, t) ==
    LET base == IF name \in DOMAIN ct
                THEN ct
                ELSE ct @@ (name :> [total |-> Zero, count |-> 0,
                                     transactions |-> <<>>])
    IN  [base EXCEPT ![name] =
            [total |-> RatSub(@.total, amt),
             count |-> @.count + 1,
             transactions |-> Append(@.transactions, t)]]

\* for sub in subtransactions: ...     acc is [err, ct]
RECURSIVE SplitLoop(_, _, _)
SplitLoop(acc, t, subs) ==
    IF subs = <<>> \/ acc.err
    THEN acc
    ELSE LET sub == Head(subs)
             name == sub_cat_name(sub)
         IN  IF LowerRaises(sub_cat_value(sub))
             THEN [acc EXCEPT !.err = TRUE]
             ELSE IF is_inflow(name)
             THEN SplitLoop(acc, t, Tail(subs))
             ELSE IF AmountRaises(sub)
             THEN [acc EXCEPT !.err = TRUE]
             ELSE SplitLoop(
                    [acc EXCEPT !.ct =
                        AddContribution(@, name, sub_amount(sub), t)],
                    t, Tail(subs))

\* the non-split path of the loop body
NonSplit(acc, t) ==
    IF LowerRaises(cat_value(t))
    THEN [acc EXCEPT !.err = TRUE]
    ELSE IF is_inflow(cat_name(t))
    THEN acc
    ELSE IF AmountRaises(t)
    THEN [acc EXCEPT !.err = TRUE]
    ELSE [acc EXCEPT !.ct = AddContribution(@, cat_name(t), amount(t), t)]

\* the body of `for t in transactions`
AggregateOne(acc, t) ==
    IF acc.err THEN acc
    ELSE IF is_transfer(t) THEN acc
    ELSE IF LowerRaises(payee_value(t)) THEN [acc EXCEPT !.err = TRUE]
    ELSE IF is_reconciliation(t) THEN acc
    ELSE IF is_split(t) THEN SplitLoop(acc, t, subtransactions(t).v)
    ELSE NonSplit(acc, t)

RECURSIVE AggregateFrom(_, _)
AggregateFrom(acc, txs) ==
    IF txs = <<>> THEN acc
    ELSE AggregateFrom(AggregateOne(acc, Head(txs)), Tail(txs))

aggregate_by_category(txs) ==
    AggregateFrom([err |-> FALSE, ct |-> NoTotals], txs)

----------------------------------------------------------------------------
(* get_category_status *)

NoStatus == [overspent |-> <<>>, warning |-> <<>>, underfunded |-> <<>>]

\* budgeted = cat.get("budgeted", 0) / 1000
budgeted(cat) == ToMajor(GetDefault(cat.budgeted, Int_(0)).v)

\* activity = abs(cat.get("activity", 0)) / 1000
activity(cat) == ToMajor(Abs(GetDefault(cat.activity, Int_(0)).v))

\* balance = cat.get("balance", 0) / 1000
balance(cat) == ToMajor(GetDefault(cat.balance, Int_(0)).v)

\* name = cat.get("name") or "Unknown"
status_name(cat) == OrElse(Get(cat.name), Str(Unknown)).v

\* percent_used = (activity / budgeted * 100) if budgeted > 0 else 0
percent_used(cat) ==
    IF RatLt(Zero, budgeted(cat))
    THEN RatMulInt(RatDiv(activity(cat), budgeted(cat)), 100)
    ELSE Zero

\* mutant: > in place of >=
reaches_threshold_strict(cat, th) == RatLt(Rat(th, 1), percent_used(cat))

\* elif percent_used >= threshold_percent
reaches_threshold(cat, th) == RatLe(Rat(th, 1), percent_used(cat))

\* elif balance > budgeted * 2
is_underfunded(cat) == RatLt(RatMulInt(budgeted(cat), 2), balance(cat))

StatusEntry(cat) ==
    [name |-> status_name(cat), budgeted |-> budgeted(cat),
     activity |-> activity(cat), balance |-> balance(cat),
     percent_used |-> percent_used(cat)]

UnderfundedEntry(cat) ==
    [name |-> status_name(cat), budgeted |-> budgeted(cat),
     activity |-> activity(cat), balance |-> balance(cat)]

\* mutant: the threshold test ahead of the overspent test
StatusOne_warning_first(res, cat, th) ==
    IF is_inflow(status_name(cat)) THEN res
    ELSE IF budgeted(cat) = Zero THEN res
    ELSE IF reaches_threshold(cat, th)
    THEN [res EXCEPT !.warning = Append(@, StatusEntry(cat))]
    ELSE IF RatLt(balance(cat), Zero)
    THEN [res EXCEPT !.overspent = Append(@, StatusEntry(cat))]
    ELSE IF is_underfunded(cat)
    THEN [res EXCEPT !.underfunded = Append(@, UnderfundedEntry(cat))]
    ELSE res

\* the body of `for cat in categories`
StatusOne(res, cat, th) ==
    IF is_inflow(status_name(cat)) THEN res
    ELSE IF budgeted(cat) = Zero THEN res
    ELSE IF RatLt(balance(cat), Zero)
    THEN [res EXCEPT !.overspent = Append(@, StatusEntry(cat))]
    ELSE IF reaches_threshold(cat, th)
    THEN [res EXCEPT !.warning = Append(@, StatusEntry(cat))]
    ELSE IF is_underfunded(cat)
    THEN [res EXCEPT !.underfunded = Append(@, UnderfundedEntry(cat))]
    ELSE res

RECURSIVE StatusFrom(_, _, _)
StatusFrom(res, cats, th) ==
    IF cats = <<>> THEN res
    ELSE StatusFrom(StatusOne(res, Head(cats), th), Tail(cats), th)

get_category_status(cats, th) == StatusFrom(NoStatus, cats, th)

----------------------------------------------------------------------------
(* The filters *)

\* "YYYY-MM-DD" strings compare as <<year, month, day>> compare
DateLt(a, b) ==
    \/ a[1] < b[1]
    \/ a[1] = b[1] /\ a[2] < b[2]
    \/ a[1] = b[1] /\ a[2] = b[2] /\ a[3] < b[3]

\* one step of the stable sort, key date, reverse=True
RECURSIVE InsertDesc(_, _)
InsertDesc(sorted, t) ==
    IF sorted = <<>> THEN <<t>>
    ELSE IF DateLt(Head(sorted).date, t.date)
    THEN <<t>> \o sorted
    ELSE <<Head(sorted)>> \o InsertDesc(Tail(sorted), t)

RECURSIVE SortDesc(_, _)
SortDesc(sorted, rest) ==
    IF rest = <<>> THEN sorted
    ELSE SortDesc(InsertDesc(sorted, Head(rest)), Tail(rest))

\* the four `continue` tests of get_last_week_transactions
week_keeps(t) ==
    /\ ~is_scheduled(t)
    /\ ~is_transfer(t)
    /\ ~is_reconciliation(t)
    /\ ~is_inflow(filter_cat_name(t))

\* the two .lower() calls, reached past the `continue`s before them
week_raises(t) ==
    /\ ~is_scheduled(t)
    /\ ~is_transfer(t)
    /\ \/ LowerRaises(payee_value(t))
       \/ ~is_reconciliation(t) /\ LowerRaises(filter_cat_value(t))

last_week_raises(api) == \E i \in 1..Len(api) : week_raises(api[i])

get_last_week_transactions(api) ==
    SortDesc(<<>>, SelectSeq(api, week_keeps))

\* last_month = first_of_this_month - timedelta(days=1), as <<year, month>>
last_month_ym(now) ==
    IF now[2] = 1 THEN <<now[1] - 1, 12>> ELSE <<now[1], now[2] - 1>>

\* t["date"].startswith(last_month.strftime("%Y-%m"))
in_last_month(t, now) == <<t.date[1], t.date[2]>> = last_month_ym(now)

month_keeps(t, now) ==
    /\ in_last_month(t, now)
    /\ ~is_scheduled(t)
    /\ ~is_transfer(t)
    /\ ~is_reconciliation(t)
    /\ ~is_inflow(filter_cat_name(t))

last_month_raises(api, now) ==
    \E i \in 1..Len(api) : in_last_month(api[i], now) /\ week_raises(api[i])

get_last_month_transactions(api, now) ==
    LET keep(t) == month_keeps(t, now) IN SelectSeq(api, keep)

\* not t.get("category_id") or t.get("category_name") == "Uncategorized"
is_uncategorized(t) ==
    \/ ~Truthy(Get(t.category_id))
    \/ Get(t.category_name) = Str(Uncategorized)

\* mutant: the scheduled test of the weekly and monthly filters is repeated
uncategorized_keeps_unscheduled(t) ==
    /\ ~is_scheduled(t)
    /\ ~is_transfer(t)
    /\ ~is_reconciliation(t)
    /\ ~is_inflow(filter_cat_name(t))
    /\ is_uncategorized(t)

\* the three `continue` tests and the final test of
\* get_uncategorized_transactions
uncategorized_keeps(t) ==
    /\ ~is_transfer(t)
    /\ ~is_reconciliation(t)
    /\ ~is_inflow(filter_cat_name(t))
    /\ is_uncategorized(t)

uncategorized_raises(api) ==
    \E i \in 1..Len(api) :
        /\ ~is_transfer(api[i])
        /\ \/ LowerRaises(payee_value(api[i]))
           \/ /\ ~is_reconciliation(api[i])
              /\ LowerRaises(filter_cat_value(api[i]))

get_uncategorized_transactions(api) == SelectSeq(api, uncategorized_keeps)

----------------------------------------------------------------------------
(* The records the API returns, within bounds *)

MaxTx == 1        \* transactions in a list given to one processor function
MaxSubs == 2      \* subtransactions of a split
MaxCats == 1      \* categories of the month budget
MaxReport == 4    \* transactions in a list given to the report generator

SeqsUpTo(S, n) == UNION {[1..k -> S] : k \in 0..n}
SeqsFrom1(S, n) == UNION {[1..k -> S] : k \in 1..n}

Groceries == <<"G", "r", "o", "c", "e", "r", "i", "e", "s">>
Dining == <<"D", "i", "n", "i", "n", "g">>
SplitName == <<"S", "p", "l", "i", "t">>
InflowRTA ==
    <<"I", "n", "f", "l", "o", "w", ":", " ", "R", "e", "a", "d", "y", " ",
      "t", "o", " ", "A", "s", "s", "i", "g", "n">>
UpperRTA ==
    <<"R", "E", "A", "D", "Y", " ", "T", "O", " ",
      "A", "S", "S", "I", "G", "N">>
Shop == <<"S", "h", "o", "p">>
ReconPayee ==
    <<"R", "e", "c", "o", "n", "c", "i", "l", "i", "a", "t", "i", "o", "n",
      " ", "B", "a", "l", "a", "n", "c", "e", " ",
      "A", "d", "j", "u", "s", "t", "m", "e", "n", "t">>
ManualAdj ==
    <<"M", "a", "n", "u", "a", "l", " ", "B", "A", "L", "A", "N", "C", "E",
      " ", "A", "d", "j", "u", "s", "t", "m", "e", "n", "t">>
AnId == <<"i", "d">>

Sub(name, amt) == [category_name |-> name, amount |-> Int_(amt)]

Tx(sched, transfer, payee, cid, cname, amt, subs, date) ==
    [scheduled_transaction_id |-> sched, transfer_account_id |-> transfer,
     payee_name |-> payee, category_id |-> cid, category_name |-> cname,
     amount |-> amt, subtransactions |-> subs, date |-> date]

RECURSIVE SumAmounts(_)
SumAmounts(subs) ==
    IF subs = <<>> THEN 0 ELSE Head(subs).amount.v + SumAmounts(Tail(subs))

\* the parent of a split carries the sum of its subtransactions
SplitTx(sched, transfer, payee, cname, subs, date) ==
    Tx(sched, transfer, payee, Str(AnId), cname,
       Int_(SumAmounts(subs)), List(subs), date)

Subs ==
    {Sub(Str(Groceries), -6000), Sub(Str(Dining), -4000),
     Sub(Str(InflowRTA), 5000)}
SubLists == SeqsFrom1(Subs, MaxSubs)

Feb10 == <<2024, 2, 10>>
Mar12 == <<2024, 3, 12>>
Mar15 == <<2024, 3, 15>>
Jan05 == <<2025, 1, 5>>
Dec20 == <<2024, 12, 20>>

\* the inputs of aggregate_by_category
AggTx ==
    LET transfers == {NullStr, Str(AnId)}
        payees == {AbsentStr, Str(ReconPayee), Str(ManualAdj)}
    IN  {Tx(AbsentStr, tr, py, Str(AnId), cn, Int_(am), AbsentList, Feb10) :
            tr \in transfers, py \in payees,
            cn \in {NullStr, Str(Groceries), Str(UpperRTA)},
            am \in {-6000, 2000}}
        \cup
        {SplitTx(AbsentStr, tr, py, Str(SplitName), sl, Feb10) :
            tr \in transfers, py \in payees, sl \in SubLists}

\* the answers of client.get_transactions the filters read
ApiTx ==
    {Tx(sc, tr, py, cid, cn, Int_(-6000), List(<<>>), d) :
        sc \in {NullStr, Str(AnId)}, tr \in {NullStr, Str(AnId)},
        py \in {NullStr, Str(Shop), Str(ReconPayee), Str(ManualAdj)},
        cid \in {NullStr, Str(AnId)},
        cn \in {NullStr, Str(Groceries), Str(InflowRTA), Str(Uncategorized)},
        d \in {Feb10, Mar12}}

\* records whose optional fields are all missing or None
Sparse(unread, lists) ==
    LET none == {AbsentStr, NullStr}
    IN  {Tx(sc, tr, py, cid, cn, Int_(-6000), subs, Feb10) :
            sc \in unread, tr \in none, py \in none, cid \in unread,
            cn \in none, subs \in lists}

\* for the filters, which do not read the subtransactions
SparseApiTx == Sparse({AbsentStr, NullStr}, {AbsentList, NullList})

\* for the aggregator, which reads neither scheduled_transaction_id nor
\* category_id
SparseTx ==
    Sparse({AbsentStr},
           {AbsentList, NullList,
            List(<<Sub(AbsentStr, -4000)>>),
            List(<<Sub(NullStr, -4000), Sub(Str(Groceries), -6000)>>)})

Feb05 == <<2024, 2, 5>>
Feb12 == <<2024, 2, 12>>
Feb13 == <<2024, 2, 13>>

Spend(cname, amt, date) ==
    Tx(NullStr, NullStr, Str(Shop), Str(AnId), Str(cname), Int_(amt),
       List(<<>>), date)

\* the transactions of last month handed to generate_monthly_recap: on
\* two Mondays, a Tuesday and a Saturday, with a zero amount and a split
\* whose subtransactions cancel
ReportTx ==
    {Spend(Groceries, -200, Feb05), Spend(Dining, -200, Feb12),
     Spend(Dining, -12340, Feb13), Spend(Groceries, 0, Feb05),
     SplitTx(NullStr, NullStr, Str(Shop), Str(SplitName),
        <<Sub(Str(Groceries), -6000), Sub(Str(Dining), 6000)>>, Feb10)}

\* the weekly and monthly filters do not read category_id, and
\* get_uncategorized_transactions does not read the date
ApiTxWithId == {t \in ApiTx : t.category_id = Str(AnId)}
ApiTxOneDay == {t \in ApiTx : t.date = Feb10}

Cat(name, b, a, bal) ==
    [name |-> name, budgeted |-> Int_(b), activity |-> Int_(a),
     balance |-> Int_(bal)]

\* the categories of client.get_month_budget
Cats ==
    {Cat(nm, b, a, bal) :
        nm \in {NullStr, Str(Groceries), Str(InflowRTA), Str(UpperRTA)},
        b \in {0, 50000, 100000, -50000},
        a \in {-85000, -80000, 0},
        bal \in {-10000, 15000, 200000, 250000}}

\* int(os.getenv("CATEGORY_SPENT_THRESHOLD", 80))
DefaultThreshold == 80

Thresholds == {DefaultThreshold, 0}

NoBundle == [kind |-> "none"]

----------------------------------------------------------------------------
(* SpecFn: each processor function called on the records above *)

IdleMain ==
    /\ command = "none"
    /\ pending = <<>>
    /\ report = "none"
    /\ steps = <<>>
    /\ bundle = NoBundle
    /\ runs = 0
    /\ outbox = <<>>
    /\ log = <<>>

NoResults ==
    /\ filtered = <<>>
    /\ category_totals = NoTotals
    /\ category_status = NoStatus
    /\ raised = FALSE

InitFn ==
    /\ pc = "call"
    /\ IdleMain
    /\ NoResults
    /\ \/ /\ op = "aggregate_by_category"
          /\ transactions \in
                SeqsUpTo(AggTx, MaxTx) \cup SeqsUpTo(SparseTx, MaxTx)
          /\ categories = <<>> /\ threshold = DefaultThreshold /\ today = Mar15
       \/ /\ op = "get_last_week_transactions"
          /\ transactions \in
                SeqsUpTo(ApiTxWithId, MaxTx) \cup SeqsUpTo(SparseApiTx, MaxTx)
          /\ categories = <<>> /\ threshold = DefaultThreshold /\ today = Mar15
       \/ /\ op = "get_uncategorized_transactions"
          /\ transactions \in
                SeqsUpTo(ApiTxOneDay, MaxTx) \cup SeqsUpTo(SparseApiTx, MaxTx)
          /\ categories = <<>> /\ threshold = DefaultThreshold /\ today = Mar15
       \/ /\ op = "get_last_month_transactions"
          /\ transactions \in
                SeqsUpTo(ApiTxWithId, MaxTx) \cup SeqsUpTo(SparseApiTx, MaxTx)
          /\ categories = <<>> /\ threshold = DefaultThreshold /\ today \in {Mar15, Jan05}
       \/ /\ op = "generate_monthly_recap"
          /\ transactions \in SeqsUpTo(ReportTx, MaxReport)
          /\ categories = <<>> /\ threshold = DefaultThreshold
          /\ today \in {Mar15, Jan05}
       \/ /\ op = "get_category_status"
          /\ transactions = <<>>
          /\ categories \in SeqsUpTo(Cats, MaxCats)
          /\ threshold \in Thresholds /\ today = Mar15

MainVars == <<command, pending, report, steps, bundle, runs, outbox, log>>
Inputs == <<op, today, transactions, categories, threshold>>

CallAggregate ==
    /\ op = "aggregate_by_category" /\ pc = "call"
    /\ LET r == aggregate_by_category(transactions)
       IN  /\ raised' = r.err
           /\ category_totals' = IF r.err THEN NoTotals ELSE r.ct
    /\ pc' = "done"
    /\ UNCHANGED <<Inputs, MainVars, filtered, category_status>>

CallStatus ==
    /\ op = "get_category_status" /\ pc = "call"
    /\ category_status' = get_category_status(categories, threshold)
    /\ pc' = "done"
    /\ UNCHANGED <<Inputs, MainVars, filtered, category_totals, raised>>

CallLastWeek ==
    /\ op = "get_last_week_transactions" /\ pc = "call"
    /\ raised' = last_week_raises(transactions)
    /\ filtered' = IF raised' THEN <<>> ELSE get_last_week_transactions(transactions)
    /\ pc' = "done"
    /\ UNCHANGED <<Inputs, MainVars, category_totals, category_status>>

CallLastMonth ==
    /\ op = "get_last_month_transactions" /\ pc = "call"
    /\ raised' = last_month_raises(transactions, today)
    /\ filtered' = IF raised' THEN <<>> ELSE get_last_month_transactions(transactions, today)
    /\ pc' = "done"
    /\ UNCHANGED <<Inputs, MainVars, category_totals, category_status>>

CallUncategorized ==
    /\ op = "get_uncategorized_transactions" /\ pc = "call"
    /\ raised' = uncategorized_raises(transactions)
    /\ filtered' = IF raised' THEN <<>> ELSE get_uncategorized_transactions(transactions)
    /\ pc' = "done"
    /\ UNCHANGED <<Inputs, MainVars, category_totals, category_status>>

----------------------------------------------------------------------------
(* The calendar, the API and the report generator *)

IsLeap(y) == (y % 4 = 0 /\ y % 100 # 0) \/ y % 400 = 0

DaysInMonth(y, m) ==
    IF m = 2 THEN (IF IsLeap(y) THEN 29 ELSE 28)
    ELSE IF m \in {4, 6, 9, 11} THEN 30 ELSE 31

PrevDay(d) ==
    IF d[3] > 1 THEN <<d[1], d[2], d[3] - 1>>
    ELSE IF d[2] > 1 THEN <<d[1], d[2] - 1, DaysInMonth(d[1], d[2] - 1)>>
    ELSE <<d[1] - 1, 12, 31>>

\* now - timedelta(days=n)
RECURSIVE MinusDays(_, _)
MinusDays(d, n) == IF n = 0 THEN d ELSE MinusDays(PrevDay(d), n - 1)

\* first_of_last_month
first_of_last_month(now) ==
    <<last_month_ym(now)[1], last_month_ym(now)[2], 1>>

\* GET budgets/{id}/transactions?since_date=...: the ledger from that day on
client_get_transactions(ledger, since_date) ==
    LET since(t) == ~DateLt(t.date, since_date) IN SelectSeq(ledger, since)

\* abs(None) raises TypeError
TotalRaises(txs) == \E i \in 1..Len(txs) : AmountRaises(txs[i])

\* mutant: the amounts are added with their signs
RECURSIVE total_spent_signed(_)
total_spent_signed(txs) ==
    IF txs = <<>> THEN Zero
    ELSE RatAdd(ToMajor(GetDefault(Head(txs).amount, Int_(0)).v),
                total_spent_signed(Tail(txs)))

\* sum(abs(t.get("amount", 0)) / 1000 for t in transactions)
RECURSIVE total_spent(_)
total_spent(txs) ==
    IF txs = <<>> THEN Zero
    ELSE RatAdd(ToMajor(Abs(GetDefault(Head(txs).amount, Int_(0)).v)),
                total_spent(Tail(txs)))

\* the keyword arguments of template.render; the scheduled-transaction
\* lists are passed through and are not modelled further
generate_daily_alert(unc, status, th) ==
    [kind |-> "daily", uncategorized_transactions |-> unc,
     uncategorized_count |-> Len(unc), category_status |-> status,
     threshold |-> th]

generate_weekly_recap(txs, spending, status) ==
    [kind |-> "weekly", total_spent |-> total_spent(txs),
     transaction_count |-> Len(txs), category_spending |-> spending,
     category_status |-> status]

\* the doubles abs(t.get("amount", 0)) / 1000 of the generator expression
SpentDoubles(txs) ==
    [i \in 1..Len(txs) |->
        F64FromMilli(Abs(GetDefault(txs[i].amount, Int_(0)).v))]

\* sum(...) up to Python 3.11: result = 0; result = result + x, in order
RECURSIVE sum_f64(_, _)
sum_f64(acc, xs) ==
    IF xs = <<>> THEN acc ELSE sum_f64(F64Add(acc, Head(xs)), Tail(xs))

\* |x| >= |y|
F64AbsGe(x, y) ==
    IF y.m = <<>> THEN TRUE
    ELSE IF x.m = <<>> THEN FALSE
    ELSE F64Sub([x EXCEPT !.s = 0], [y EXCEPT !.s = 0]).s = 0

\* sum(...) from Python 3.12 on: Neumaier's compensated summation,
\* acc is [f |-> f_result, c |-> c]
RECURSIVE sum_f64_compensated(_, _)
sum_f64_compensated(acc, xs) ==
    IF xs = <<>>
    THEN F64Add(acc.f, acc.c)
    ELSE LET x == Head(xs)
             t == F64Add(acc.f, x)
             lost == IF F64AbsGe(acc.f, x)
                     THEN F64Add(F64Sub(acc.f, t), x)
                     ELSE F64Add(F64Sub(x, t), acc.f)
         IN  sum_f64_compensated([f |-> t, c |-> F64Add(acc.c, lost)],
                                 Tail(xs))

\* the values total_spent can have as a double, one per version of sum()
total_spent_f64(txs) ==
    {sum_f64(F64Zero, SpentDoubles(txs)),
     sum_f64_compensated([f |-> F64Zero, c |-> F64Zero], SpentDoubles(txs))}

\* the contributions aggregate_by_category takes from t, in order, as
\* [name, amount in milliunits]
ContributionAmounts(t) ==
    IF is_transfer(t) \/ is_reconciliation(t) THEN <<>>
    ELSE IF is_split(t)
    THEN LET counted(sub) == ~is_inflow(sub_cat_name(sub))
             subs == SelectSeq(subtransactions(t).v, counted)
         IN  [j \in 1..Len(subs) |->
                [name |-> sub_cat_name(subs[j]),
                 amount |-> GetDefault(subs[j].amount, Int_(0)).v]]
    ELSE IF is_inflow(cat_name(t)) THEN <<>>
    ELSE <<[name |-> cat_name(t),
            amount |-> GetDefault(t.amount, Int_(0)).v]>>

\* total -= amount / 1000 for each of the contributions
RECURSIVE SubtractAll(_, _)
SubtractAll(acc, cs) ==
    IF cs = <<>> THEN acc
    ELSE SubtractAll(F64Sub(acc, F64FromMilli(Head(cs).amount)), Tail(cs))

\* category_totals[name]["total"] as the double the code holds:
\* "total": 0, then total -= amount for each contribution in order
RECURSIVE total_f64(_, _, _)
total_f64(acc, txs, name) ==
    IF txs = <<>> THEN acc
    ELSE LET mine(c) == c.name = name
         IN  total_f64(
                SubtractAll(acc, SelectSeq(ContributionAmounts(Head(txs)),
                                           mine)),
                Tail(txs), name)

\* a / b: ZeroDivisionError when b is 0
Div(a, b) ==
    IF b.n = 0 THEN [err |-> TRUE, v |-> Zero]
    ELSE [err |-> FALSE, v |-> RatDiv(a, b)]
Ok(x) == [err |-> FALSE, v |-> x]

\* last_month = now.replace(day=1) - timedelta(days=1); last_month.day
days_in_month(now) == DaysInMonth(last_month_ym(now)[1], last_month_ym(now)[2])

\* total_spent / days_in_month if days_in_month > 0 else 0
avg_per_day(total, days) ==
    IF days > 0 THEN Div(total, Rat(days, 1)) ELSE Ok(Zero)

\* total_spent / transaction_count if transaction_count > 0 else 0
avg_transaction(total, count) ==
    IF count > 0 THEN Div(total, Rat(count, 1)) ELSE Ok(Zero)

RatMax(a, b) == IF RatLt(a, b) THEN b ELSE a

\* max(abs(t.get("amount", 0)) / 1000 for t in transactions)
RECURSIVE MaxAbs(_)
MaxAbs(txs) ==
    LET x == ToMajor(Abs(GetDefault(Head(txs).amount, Int_(0)).v))
    IN  IF Len(txs) = 1 THEN x ELSE RatMax(x, MaxAbs(Tail(txs)))

\* largest_transaction = 0; if transactions: largest_transaction = max(...)
largest_transaction(txs) == IF txs # <<>> THEN MaxAbs(txs) ELSE Zero

WeekdayNames ==
    <<"Sunday", "Monday", "Tuesday", "Wednesday", "Thursday", "Friday",
      "Saturday">>
MonthOffsets == <<0, 3, 2, 5, 0, 3, 5, 1, 4, 6, 2, 4>>

\* datetime.strptime(t["date"], "%Y-%m-%d").strftime("%A")
weekday(date) ==
    LET y == IF date[2] < 3 THEN date[1] - 1 ELSE date[1]
    IN  WeekdayNames[
            ((y + (y \div 4) - (y \div 100) + (y \div 400)
                + MonthOffsets[date[2]] + date[3]) % 7) + 1]

\* day_counts[...] += 1 on a defaultdict(int): the keys keep the order of
\* their first increment
RECURSIVE day_counts(_, _)
day_counts(counts, txs) ==
    IF txs = <<>> THEN counts
    ELSE LET day == weekday(Head(txs).date)
             at == {i \in 1..Len(counts) : counts[i].day = day}
             next == IF at = {}
                     THEN Append(counts, [day |-> day, n |-> 1])
                     ELSE [i \in 1..Len(counts) |->
                             IF i \in at
                             THEN [counts[i] EXCEPT !.n = @ + 1]
                             ELSE counts[i]]
         IN  day_counts(next, Tail(txs))

\* mutant: the last of the weekdays with the highest count
most_active_day_last_max(txs) ==
    LET counts == day_counts(<<>>, txs)
    IN  IF counts = <<>> THEN "N/A"
        ELSE counts[CHOOSE i \in 1..Len(counts) :
                      /\ \A j \in 1..Len(counts) : counts[j].n <= counts[i].n
                      /\ \A j \in (i + 1)..Len(counts) :
                            counts[j].n < counts[i].n].day

\* max(day_counts.items(), key=lambda x: x[1])[0] if day_counts else "N/A":
\* max returns the first of the items with the highest key
most_active_day(txs) ==
    LET counts == day_counts(<<>>, txs)
    IN  IF counts = <<>> THEN "N/A"
        ELSE counts[CHOOSE i \in 1..Len(counts) :
                      /\ \A j \in 1..Len(counts) : counts[j].n <= counts[i].n
                      /\ \A j \in 1..(i - 1) : counts[j].n < counts[i].n].day

\* the names aggregate_by_category adds a contribution to for t, in order
ContributionNames(t) ==
    IF is_transfer(t) \/ is_reconciliation(t) THEN <<>>
    ELSE IF is_split(t)
    THEN LET counted(sub) == ~is_inflow(sub_cat_name(sub))
             subs == SelectSeq(subtransactions(t).v, counted)
         IN  [j \in 1..Len(subs) |-> sub_cat_name(subs[j])]
    ELSE IF is_inflow(cat_name(t)) THEN <<>> ELSE <<cat_name(t)>>

RECURSIVE AppendNew(_, _)
AppendNew(keys, names) ==
    IF names = <<>> THEN keys
    ELSE AppendNew(
            IF \E i \in 1..Len(keys) : keys[i] = Head(names)
            THEN keys ELSE Append(keys, Head(names)),
            Tail(names))

\* the keys of the dict aggregate_by_category(txs) returns, in the order of
\* `if name not in category_totals: category_totals[name] = {...}`
RECURSIVE key_order(_, _)
key_order(keys, txs) ==
    IF txs = <<>> THEN keys
    ELSE key_order(AppendNew(keys, ContributionNames(Head(txs))), Tail(txs))

\* mutant: >= in place of >
has_spending_or_none(total) == RatLe(Zero, total)

\* if total_spent > 0
has_spending(total) == RatLt(Zero, total)

\* (data["total"] / total_spent * 100) if total_spent > 0 else 0
percentage(data, total) ==
    IF has_spending(total)
    THEN LET q == Div(data.total, total)
         IN  [err |-> q.err, v |-> RatMulInt(q.v, 100)]
    ELSE Ok(Zero)

\* one step of sorted(..., key=total, reverse=True), which is stable
RECURSIVE InsertByTotal(_, _, _)
InsertByTotal(sorted, name, spending) ==
    IF sorted = <<>> THEN <<name>>
    ELSE IF RatLt(spending[Head(sorted)].total, spending[name].total)
    THEN <<name>> \o sorted
    ELSE <<Head(sorted)>> \o InsertByTotal(Tail(sorted), name, spending)

RECURSIVE SortByTotal(_, _, _)
SortByTotal(sorted, rest, spending) ==
    IF rest = <<>> THEN sorted
    ELSE SortByTotal(InsertByTotal(sorted, Head(rest), spending),
                     Tail(rest), spending)

\* the (cat_name, {**data, "percentage": percentage}) tuples; the order of
\* category_spending.items() is the key order of the aggregation of txs,
\* the list main.py aggregated
top_categories(txs, spending, total) ==
    LET inDict(name) == name \in DOMAIN spending
        names == SortByTotal(<<>>, SelectSeq(key_order(<<>>, txs), inDict),
                             spending)
    IN  [i \in 1..Len(names) |->
            [name |-> names[i], total |-> spending[names[i]].total,
             count |-> spending[names[i]].count,
             transactions |-> spending[names[i]].transactions,
             percentage |-> percentage(spending[names[i]], total).v]]

\* TypeError of abs(None), or ZeroDivisionError
monthly_raises(txs, spending, now) ==
    \/ TotalRaises(txs)
    \/ avg_per_day(total_spent(txs), days_in_month(now)).err
    \/ avg_transaction(total_spent(txs), Len(txs)).err
    \/ \E name \in DOMAIN spending :
          percentage(spending[name], total_spent(txs)).err

generate_monthly_recap(txs, spending, now) ==
    [kind |-> "monthly", total_spent |-> total_spent(txs),
     transaction_count |-> Len(txs),
     avg_per_day |-> avg_per_day(total_spent(txs), days_in_month(now)).v,
     avg_transaction |-> avg_transaction(total_spent(txs), Len(txs)).v,
     largest_transaction |-> largest_transaction(txs),
     most_active_day |-> most_active_day(txs),
     category_spending |-> spending,
     categories_used |-> Cardinality(DOMAIN spending),
     top_categories |-> top_categories(txs, spending, total_spent(txs))]

\* generate_monthly_recap on a list and its aggregate, as main.py calls it
CallMonthlyRecap ==
    /\ op = "generate_monthly_recap" /\ pc = "call"
    /\ LET r == aggregate_by_category(transactions)
       IN  /\ raised' = (r.err \/ monthly_raises(transactions, r.ct, today))
           /\ category_totals' = IF raised' THEN NoTotals ELSE r.ct
           /\ bundle' = IF raised' THEN NoBundle
                        ELSE generate_monthly_recap(transactions, r.ct, today)
    /\ pc' = "done"
    /\ UNCHANGED <<Inputs, filtered, category_status, command, pending,
                   report, steps, runs, outbox, log>>

NextFn ==
    \/ CallAggregate
    \/ CallStatus
    \/ CallLastWeek
    \/ CallLastMonth
    \/ CallUncategorized
    \/ CallMonthlyRecap

SpecFn == InitFn /\ [][NextFn]_vars

----------------------------------------------------------------------------
(* Spec: main, the scheduler and the three report runs *)

MaxLedger == 2    \* transactions in the budget's ledger
MaxRuns == 2      \* jobs the scheduler finds due

Apr01 == <<2024, 4, 1>>

\* the ledger of the budget
Ledger ==
    {Tx(NullStr, NullStr, Str(Shop), Str(AnId), Str(Groceries),
        Int_(-6000), List(<<>>), Mar12),
     Tx(NullStr, NullStr, Str(Shop), NullStr, NullStr,
        Int_(2000), List(<<>>), Mar12),
     SplitTx(NullStr, NullStr, Str(Shop), Str(SplitName),
        <<Sub(Str(InflowRTA), 5000), Sub(Str(Groceries), -6000)>>, Mar12),
     SplitTx(NullStr, NullStr, Str(Shop), Str(SplitName),
        <<Sub(Str(Groceries), -6000), Sub(Str(Dining), -4000)>>, Feb10),
     Tx(NullStr, NullStr, Str(Shop), Str(AnId), Str(Dining),
        NullInt, List(<<>>), Feb10),
     Tx(NullStr, NullStr, Str(ReconPayee), Str(AnId), Str(Groceries),
        Int_(-4000), List(<<>>), Mar12)}

Budgets ==
    {<<Cat(Str(Groceries), 100000, -85000, 15000)>>}

Reports == {"daily", "weekly", "monthly"}
Commands == {"daily", "weekly", "monthly", "test", "scheduler"}

\* the calls of main for each command, in order
CommandRuns(c) ==
    CASE c = "test" -> <<"daily", "weekly", "monthly">>
      [] c = "scheduler" -> <<>>
      [] OTHER -> <<c>>

\* the calls inside the try block of each report, in order
Plan(r) ==
    CASE r = "daily" ->
            <<"get_uncategorized_transactions", "get_category_status",
              "generate_daily_alert", "send_email">>
      [] r = "weekly" ->
            <<"get_last_week_transactions", "aggregate_by_category",
              "get_upcoming_scheduled_transactions", "get_category_status",
              "generate_weekly_recap", "send_email">>
      [] r = "monthly" ->
            <<"get_last_month_transactions", "aggregate_by_category",
              "get_recurring_scheduled_this_month",
              "generate_monthly_recap", "send_email">>
      [] OTHER -> <<>>

NextStep ==
    IF pc = "run" /\ Len(steps) < Len(Plan(report))
    THEN Plan(report)[Len(steps) + 1]
    ELSE "none"

\* mutant: the exception is swallowed and the try block goes on
on_exception_swallowed == "run"

\* an exception leaves the try block for its except clause
on_exception == "except"

\* mutant: only send_daily_alert has the try/except
handler_catches_daily_only(r) == r = "daily"

\* except Exception as e: of send_daily_alert / _weekly_recap / _monthly_recap
handler_catches(r) == r \in Reports

Completed(name) ==
    /\ steps' = Append(steps, [step |-> name, ok |-> TRUE])
    /\ pc' = pc

Raises(name) ==
    /\ steps' = Append(steps, [step |-> name, ok |-> FALSE])
    /\ pc' = on_exception

Init ==
    /\ op = "main"
    /\ pc = "idle"
    /\ command \in Commands
    /\ pending = CommandRuns(command)
    /\ today \in (IF command = "scheduler" THEN {Mar15, Apr01} ELSE {Mar15})
    /\ transactions \in SeqsUpTo(Ledger, MaxLedger)
    /\ categories \in Budgets
    /\ threshold = DefaultThreshold
    /\ report = "none"
    /\ steps = <<>>
    /\ bundle = NoBundle
    /\ runs = 0
    /\ outbox = <<>>
    /\ log = <<>>
    /\ NoResults

World == <<op, command, today, transactions, categories, threshold, raised>>
Locals == <<filtered, category_totals, category_status, bundle>>

\* schedule.run_pending(): a due job is run; _check_monthly_recap runs the
\* monthly recap on the 1st only
SchedulerTick ==
    /\ command = "scheduler" /\ pc = "idle" /\ pending = <<>>
    /\ runs < MaxRuns
    /\ \E job \in {"daily", "weekly", "check_monthly"} :
          IF job = "check_monthly"
          THEN IF today[3] = 1
               THEN pending' = <<"monthly">> /\ runs' = runs + 1
               ELSE UNCHANGED <<pending, runs>>
          ELSE pending' = <<job>> /\ runs' = runs + 1
    /\ UNCHANGED <<World, Locals, pc, report, steps, outbox, log>>

\* automation.send_..._...() is called
StartRun ==
    /\ pc = "idle" /\ pending # <<>>
    /\ report' = Head(pending)
    /\ pending' = Tail(pending)
    /\ pc' = "run"
    /\ UNCHANGED <<World, Locals, steps, runs, outbox, log>>

GetUncategorized ==
    /\ NextStep = "get_uncategorized_transactions"
    /\ \E ok \in BOOLEAN :
          IF ok /\ ~uncategorized_raises(
                     client_get_transactions(transactions, MinusDays(today, 30)))
          THEN /\ filtered' = get_uncategorized_transactions(
                     client_get_transactions(transactions, MinusDays(today, 30)))
               /\ Completed(NextStep)
          ELSE UNCHANGED filtered /\ Raises(NextStep)
    /\ UNCHANGED <<World, category_totals, category_status, bundle,
                   pending, report, runs, outbox, log>>

GetLastWeek ==
    /\ NextStep = "get_last_week_transactions"
    /\ \E ok \in BOOLEAN :
          IF ok /\ ~last_week_raises(
                     client_get_transactions(transactions, MinusDays(today, 7)))
          THEN /\ filtered' = get_last_week_transactions(
                     client_get_transactions(transactions, MinusDays(today, 7)))
               /\ Completed(NextStep)
          ELSE UNCHANGED filtered /\ Raises(NextStep)
    /\ UNCHANGED <<World, category_totals, category_status, bundle,
                   pending, report, runs, outbox, log>>

GetLastMonth ==
    /\ NextStep = "get_last_month_transactions"
    /\ \E ok \in BOOLEAN :
          IF ok /\ ~last_month_raises(
                     client_get_transactions(transactions,
                                             first_of_last_month(today)),
                     today)
          THEN /\ filtered' = get_last_month_transactions(
                     client_get_transactions(transactions,
                                             first_of_last_month(today)),
                     today)
               /\ Completed(NextStep)
          ELSE UNCHANGED filtered /\ Raises(NextStep)
    /\ UNCHANGED <<World, category_totals, category_status, bundle,
                   pending, report, runs, outbox, log>>

Aggregate ==
    /\ NextStep = "aggregate_by_category"
    /\ LET r == aggregate_by_category(filtered)
       IN  IF r.err
           THEN UNCHANGED category_totals /\ Raises(NextStep)
           ELSE category_totals' = r.ct /\ Completed(NextStep)
    /\ UNCHANGED <<World, filtered, category_status, bundle,
                   pending, report, runs, outbox, log>>

\* get_upcoming_scheduled_transactions / get_recurring_scheduled_this_month
GetScheduled ==
    /\ NextStep \in {"get_upcoming_scheduled_transactions",
                     "get_recurring_scheduled_this_month"}
    /\ \E ok \in BOOLEAN :
          IF ok THEN Completed(NextStep) ELSE Raises(NextStep)
    /\ UNCHANGED <<World, Locals, pending, report, runs, outbox, log>>

GetCategoryStatus ==
    /\ NextStep = "get_category_status"
    /\ \E ok \in BOOLEAN :
          IF ok
          THEN /\ category_status' = get_category_status(categories, threshold)
               /\ Completed(NextStep)
          ELSE UNCHANGED category_status /\ Raises(NextStep)
    /\ UNCHANGED <<World, filtered, category_totals, bundle,
                   pending, report, runs, outbox, log>>

\* the template may be missing; the statistics raise on a None amount
Generate ==
    /\ NextStep \in {"generate_daily_alert", "generate_weekly_recap",
                     "generate_monthly_recap"}
    /\ \E ok \in BOOLEAN :
          IF /\ ok
             /\ report = "weekly" => ~TotalRaises(filtered)
             /\ report = "monthly" =>
                   ~monthly_raises(filtered, category_totals, today)
          THEN /\ bundle' =
                    CASE report = "daily" ->
                            generate_daily_alert(filtered, category_status,
                                                 threshold)
                      [] report = "weekly" ->
                            generate_weekly_recap(filtered, category_totals,
                                                  category_status)
                      [] OTHER ->
                            generate_monthly_recap(filtered, category_totals,
                                                   today)
               /\ Completed(NextStep)
          ELSE UNCHANGED bundle /\ Raises(NextStep)
    /\ UNCHANGED <<World, filtered, category_totals, category_status,
                   pending, report, runs, outbox, log>>

\* EmailSender.send_email: the message is sent, or the SMTP error is re-raised
SendEmail ==
    /\ NextStep = "send_email"
    /\ \E ok \in BOOLEAN :
          IF ok
          THEN /\ outbox' = Append(outbox, [report |-> report, html |-> bundle])
               /\ Completed(NextStep)
          ELSE UNCHANGED outbox /\ Raises(NextStep)
    /\ UNCHANGED <<World, Locals, pending, report, runs, log>>

\* the locals of the report function are gone when it returns
ClearLocals ==
    /\ steps' = <<>>
    /\ filtered' = <<>>
    /\ category_totals' = NoTotals
    /\ category_status' = NoStatus
    /\ bundle' = NoBundle

\* print("... sent successfully"); the function returns
Finish ==
    /\ pc = "run" /\ Len(steps) = Len(Plan(report))
    /\ pc' = "idle"
    /\ report' = "none"
    /\ ClearLocals
    /\ UNCHANGED <<World, pending, runs, outbox, log>>

\* except Exception as e: print("Error sending ..."); otherwise the exception
\* reaches main, which prints it and exits with status 1
Except ==
    /\ pc = "except"
    /\ IF handler_catches(report)
       THEN /\ log' = Append(log, report)
            /\ pc' = "idle"
            /\ UNCHANGED pending
       ELSE /\ pc' = "crashed"
            /\ pending' = <<>>
            /\ UNCHANGED log
    /\ report' = "none"
    /\ ClearLocals
    /\ UNCHANGED <<World, runs, outbox>>

\* main returns after the last call of the command
MainReturns ==
    /\ pc = "idle" /\ pending = <<>> /\ command # "scheduler"
    /\ pc' = "exit"
    /\ UNCHANGED <<World, Locals, pending, report, steps, runs, outbox, log>>

Next ==
    \/ SchedulerTick
    \/ StartRun
    \/ GetUncategorized
    \/ GetLastWeek
    \/ GetLastMonth
    \/ Aggregate
    \/ GetScheduled
    \/ GetCategoryStatus
    \/ Generate
    \/ SendEmail
    \/ Finish
    \/ Except
    \/ MainReturns

Spec == Init /\ [][Next]_vars

----------------------------------------------------------------------------
(* What the claims speak of, stated on the raw records *)

Done(o) == op = o /\ pc = "done"
AggDone == Done("aggregate_by_category") /\ ~raised

InSeq(x, s) == \E i \in 1..Len(s) : s[i] = x
MapSeq(s, F(_)) == [i \in 1..Len(s) |-> F(s[i])]

\* hay contains needle (given in lower case) in some letter case
ContainsAnyCase(needle, hay) ==
    \E i \in 0..(Len(hay) - Len(needle)) :
        Lower(SubSeq(hay, i + 1, i + Len(needle))) = needle

\* the string of an optional field, empty when null or absent
TextOf(x) == IF x.k = "str" THEN x.v ELSE <<>>

HasInflowName(name) ==
    ContainsAnyCase(inflow, name) \/ ContainsAnyCase(ready_to_assign, name)

HasReconPayee(t) ==
    \/ ContainsAnyCase(reconciliation, TextOf(t.payee_name))
    \/ ContainsAnyCase(balance_adjustment, TextOf(t.payee_name))

HasTransferAccount(t) == t.transfer_account_id.k = "str"
HasSchedule(t) == t.scheduled_transaction_id.k = "str"
HasSubtransactions(t) ==
    t.subtransactions.k = "list" /\ t.subtransactions.v # <<>>

\* the category a contribution is filed under
FiledUnder(x) ==
    IF TextOf(x.category_name) = <<>>
    THEN Uncategorized
    ELSE TextOf(x.category_name)

\* every parent transaction listed under some category
ListedIn(ct) ==
    UNION {{ct[name].transactions[i] : i \in 1..Len(ct[name].transactions)} :
            name \in DOMAIN ct}

RECURSIVE SumOver(_, _)
SumOver(ct, names) ==
    IF names = {} THEN Zero
    ELSE LET n == CHOOSE x \in names : TRUE
         IN  RatAdd(ct[n].total, SumOver(ct, names \ {n}))

SumTotals(ct) == SumOver(ct, DOMAIN ct)
CountAt(ct, name) == IF name \in DOMAIN ct THEN ct[name].count ELSE 0

\* key, total and count of every category, without the transaction lists
Figures(ct) ==
    [name \in DOMAIN ct |-> [total |-> ct[name].total, count |-> ct[name].count]]

\* the totals after the first i transactions of the input; those after the
\* last one are the totals returned
TotalsAfter(i) ==
    IF i = Len(transactions)
    THEN category_totals
    ELSE aggregate_by_category(SubSeq(transactions, 1, i)).ct

----------------------------------------------------------------------------
(* C1 *)

NotTransfer(t) == ~HasTransferAccount(t)

\* C1: a transaction whose transfer_account_id is set is in no category's
\* contributing-transaction list, and the totals and counts are those of
\* the input with the transfers taken out; split or not, whatever its
\* category, payee or amount.
C1_TransfersNeverAggregated ==
    AggDone =>
        /\ \A t \in ListedIn(category_totals) : ~HasTransferAccount(t)
        /\ category_totals =
             aggregate_by_category(SelectSeq(transactions, NotTransfer)).ct

\* a transfer that nothing else would exclude was aggregated
C1_Witness ==
    /\ AggDone
    /\ \E i \in 1..Len(transactions) :
          LET t == transactions[i]
          IN  /\ HasTransferAccount(t)
              /\ ~HasReconPayee(t)
              /\ HasSubtransactions(t)
              /\ \E j \in 1..Len(t.subtransactions.v) :
                    ~HasInflowName(FiledUnder(t.subtransactions.v[j]))

----------------------------------------------------------------------------
(* C2 *)

StatusNames(st) ==
    {st.overspent[i].name : i \in 1..Len(st.overspent)}
    \cup {st.warning[i].name : i \in 1..Len(st.warning)}
    \cup {st.underfunded[i].name : i \in 1..Len(st.underfunded)}

\* C2: no key of the aggregate and no name in the overspent, warning or
\* underfunded lists contains "inflow" or "ready to assign" in any case.
C2_NoInflowInResults ==
    /\ AggDone => \A name \in DOMAIN category_totals : ~HasInflowName(name)
    /\ Done("get_category_status") =>
          \A name \in StatusNames(category_status) : ~HasInflowName(name)

\* a split with an inflow subtransaction and a counted one was aggregated
C2_Witness ==
    /\ AggDone
    /\ category_totals # NoTotals
    /\ \E i \in 1..Len(transactions) :
          /\ HasSubtransactions(transactions[i])
          /\ \E j \in 1..Len(transactions[i].subtransactions.v) :
                HasInflowName(FiledUnder(transactions[i].subtransactions.v[j]))

----------------------------------------------------------------------------
(* C3 *)

SubsOf(t) == t.subtransactions.v
SubsUnder(t, name) ==
    {j \in 1..Len(SubsOf(t)) : FiledUnder(SubsOf(t)[j]) = name}
CountedSubsUnder(t, name) ==
    {j \in SubsUnder(t, name) : ~HasInflowName(name)}

RECURSIVE SumCounted(_)
SumCounted(subs) ==
    IF subs = <<>> THEN 0
    ELSE (IF HasInflowName(FiledUnder(Head(subs))) THEN 0
          ELSE Head(subs).amount.v) + SumCounted(Tail(subs))

AllNames(i) == DOMAIN TotalsAfter(i) \cup DOMAIN TotalsAfter(i - 1)

\* C3 as claimed, read for the splits that are neither transfers nor
\* reconciliations: every such split adds, over all categories, the negated
\* sum of all its subtransaction amounts, counts each subtransaction under
\* its own category, and creates no key other than its subtransactions'
\* categories.
C3_AsClaimed ==
    AggDone =>
        \A i \in 1..Len(transactions) :
            LET t == transactions[i]
                before == TotalsAfter(i - 1)
                after == TotalsAfter(i)
            IN  (HasSubtransactions(t) /\ ~HasTransferAccount(t)
                                       /\ ~HasReconPayee(t)) =>
                  /\ RatSub(SumTotals(after), SumTotals(before))
                       = ToMajor(-SumAmounts(SubsOf(t)))
                  /\ \A j \in 1..Len(SubsOf(t)) :
                        LET name == FiledUnder(SubsOf(t)[j])
                        IN  CountAt(after, name) - CountAt(before, name)
                              = Cardinality(SubsUnder(t, name))
                  /\ DOMAIN after \ DOMAIN before
                       \subseteq {FiledUnder(SubsOf(t)[j]) :
                                    j \in 1..Len(SubsOf(t))}

\* C3 amended: every split that is neither a transfer nor a reconciliation
\* adds the negated sum of its non-inflow subtransaction amounts, counts
\* each non-inflow subtransaction under its own category, and creates no
\* key other than the categories of its non-inflow subtransactions; the
\* parent's category and amount decide nothing.
C3_SplitContributions ==
    AggDone =>
        \A i \in 1..Len(transactions) :
            LET t == transactions[i]
                before == TotalsAfter(i - 1)
                after == TotalsAfter(i)
            IN  (HasSubtransactions(t) /\ ~HasTransferAccount(t)
                                       /\ ~HasReconPayee(t)) =>
                  /\ RatSub(SumTotals(after), SumTotals(before))
                       = ToMajor(-SumCounted(SubsOf(t)))
                  /\ \A name \in AllNames(i) \cup {SplitName} :
                        CountAt(after, name) - CountAt(before, name)
                          = Cardinality(CountedSubsUnder(t, name))
                  /\ DOMAIN after \ DOMAIN before
                       = {FiledUnder(SubsOf(t)[j]) :
                            j \in {k \in 1..Len(SubsOf(t)) :
                                ~HasInflowName(FiledUnder(SubsOf(t)[k]))}}
                          \ DOMAIN before

\* a countable split with two subtransactions of different categories
C3_Witness ==
    /\ AggDone
    /\ \E i \in 1..Len(transactions) :
          LET t == transactions[i]
          IN  /\ HasSubtransactions(t)
              /\ ~HasTransferAccount(t) /\ ~HasReconPayee(t)
              /\ Len(SubsOf(t)) = 2
              /\ Groceries \in DOMAIN category_totals
              /\ Dining \in DOMAIN category_totals

----------------------------------------------------------------------------
(* C4 *)

AsSingleSplit(t) ==
    IF HasSubtransactions(t) THEN t
    ELSE [t EXCEPT !.subtransactions =
            List(<<[category_name |-> t.category_name,
                    amount |-> t.amount]>>)]

\* C4: the keys, totals and counts are the same when every non-split
\* transaction is replaced by a split whose only subtransaction has its
\* category and amount.
C4_NonSplitAsSingleSplit ==
    AggDone =>
        Figures(category_totals) =
            Figures(aggregate_by_category(
                        MapSeq(transactions, AsSingleSplit)).ct)

\* a counted non-split transaction without a category
C4_Witness ==
    /\ AggDone
    /\ Uncategorized \in DOMAIN category_totals
    /\ \E i \in 1..Len(transactions) :
          /\ ~HasSubtransactions(transactions[i])
          /\ transactions[i].category_name.k = "null"

----------------------------------------------------------------------------
(* C5, C6 *)

StatusDone == Done("get_category_status")

\* name = cat.get("name") or "Unknown", on the raw record
NameOfCat(c) == IF TextOf(c.name) = <<>> THEN Unknown ELSE TextOf(c.name)

\* percent_used: |activity| / budgeted x 100, and 0 when budgeted <= 0
PercentOf(c) ==
    IF c.budgeted.v > 0
    THEN [n |-> Abs(c.activity.v) * 100, d |-> c.budgeted.v]
    ELSE [n |-> 0, d |-> 1]

\* the entry of category c, without percent_used
Plain(c) ==
    [name |-> NameOfCat(c), budgeted |-> ToMajor(c.budgeted.v),
     activity |-> ToMajor(Abs(c.activity.v)), balance |-> ToMajor(c.balance.v)]

Strip(e) ==
    [name |-> e.name, budgeted |-> e.budgeted, activity |-> e.activity,
     balance |-> e.balance]

\* category c appears in the list
AppearsIn(list, c) == \E i \in 1..Len(list) : Strip(list[i]) = Plain(c)

InNoList(c) ==
    /\ ~AppearsIn(category_status.overspent, c)
    /\ ~AppearsIn(category_status.warning, c)
    /\ ~AppearsIn(category_status.underfunded, c)

Evaluated(c) == ~HasInflowName(NameOfCat(c)) /\ c.budgeted.v # 0

\* C5 as claimed, read for the categories whose name is no inflow name: a
\* category with budgeted = 0 is in none of the three lists, and a category
\* with balance < 0 is always in the overspent list.
C5_AsClaimed ==
    StatusDone =>
        \A i \in 1..Len(categories) :
            LET c == categories[i]
            IN  /\ c.budgeted.v = 0 => InNoList(c)
                /\ (c.balance.v < 0 /\ ~HasInflowName(NameOfCat(c))) =>
                      AppearsIn(category_status.overspent, c)

\* C5 amended: a category with budgeted = 0 is in none of the three lists,
\* and a category with balance < 0 whose budgeted is not 0 and whose name is
\* not an inflow name is in the overspent list and in no other, also when
\* its percent_used reaches the threshold.
C5_OverspentDominates ==
    StatusDone =>
        \A i \in 1..Len(categories) :
            LET c == categories[i]
            IN  /\ c.budgeted.v = 0 => InNoList(c)
                /\ (c.balance.v < 0 /\ Evaluated(c)) =>
                      /\ AppearsIn(category_status.overspent, c)
                      /\ ~AppearsIn(category_status.warning, c)
                      /\ ~AppearsIn(category_status.underfunded, c)

\* an overspent category whose percent_used is over the threshold
C5_Witness ==
    /\ StatusDone
    /\ \E i \in 1..Len(categories) :
          LET c == categories[i]
          IN  /\ c.balance.v < 0 /\ Evaluated(c) /\ c.budgeted.v > 0
              /\ Abs(c.activity.v) * 100 >= threshold * c.budgeted.v
              /\ threshold > 0
              /\ AppearsIn(category_status.overspent, c)

ClassOf(c, th) ==
    IF ~Evaluated(c) THEN "none"
    ELSE IF c.balance.v < 0 THEN "overspent"
    ELSE IF PercentOf(c).n >= th * PercentOf(c).d THEN "warning"
    ELSE IF c.balance.v > 2 * c.budgeted.v THEN "underfunded"
    ELSE "none"

WithPercent(c) ==
    [name |-> NameOfCat(c), budgeted |-> ToMajor(c.budgeted.v),
     activity |-> ToMajor(Abs(c.activity.v)), balance |-> ToMajor(c.balance.v),
     percent_used |-> Rat(PercentOf(c).n, PercentOf(c).d)]

ExpectedList(class, Entry(_)) ==
    LET InClass(c) == ClassOf(c, threshold) = class
    IN  MapSeq(SelectSeq(categories, InClass), Entry)

\* C6: each evaluated category (not inflow, budgeted not 0) is in at most
\* one list, by priority: balance < 0 overspent; else percent_used >=
\* threshold warning; else balance > 2 x budgeted underfunded; else in no
\* list; percent_used is |activity| / budgeted x 100, and 0 when budgeted <= 0.
C6_PriorityOrder ==
    StatusDone =>
        /\ category_status.overspent = ExpectedList("overspent", WithPercent)
        /\ category_status.warning = ExpectedList("warning", WithPercent)
        /\ category_status.underfunded = ExpectedList("underfunded", Plain)

\* a category whose percent_used equals the threshold, and is a warning
C6_Witness ==
    /\ StatusDone
    /\ threshold > 0
    /\ \E i \in 1..Len(categories) :
          LET c == categories[i]
          IN  /\ Evaluated(c) /\ c.budgeted.v > 0 /\ c.balance.v >= 0
              /\ Abs(c.activity.v) * 100 = threshold * c.budgeted.v
              /\ AppearsIn(category_status.warning, c)

----------------------------------------------------------------------------
(* C9 *)

FilterDone ==
    /\ pc = "done"
    /\ op \in {"get_last_week_transactions", "get_last_month_transactions",
               "get_uncategorized_transactions"}

NotRecon(t) == ~HasReconPayee(t)

\* what besides the payee keeps a transaction out of a filter's output
OtherwiseKept(t) ==
    /\ ~HasTransferAccount(t)
    /\ ~HasInflowName(TextOf(t.category_name))
    /\ op # "get_uncategorized_transactions" => ~HasSchedule(t)
    /\ op = "get_last_month_transactions" =>
          <<t.date[1], t.date[2]>> =
              (IF today[2] = 1 THEN <<today[1] - 1, 12>>
                               ELSE <<today[1], today[2] - 1>>)
    /\ op = "get_uncategorized_transactions" =>
          \/ TextOf(t.category_id) = <<>>
          \/ t.category_name = Str(Uncategorized)

\* C9: a transaction whose payee name contains "reconciliation" or
\* "balance adjustment" in any case is in no filter's output and adds
\* nothing to the aggregate; a null or absent payee name is no
\* reconciliation, so such a transaction is kept when nothing else
\* excludes it.
C9_ReconciliationsExcluded ==
    /\ FilterDone =>
          /\ \A i \in 1..Len(filtered) : ~HasReconPayee(filtered[i])
          /\ \A i \in 1..Len(transactions) :
                (transactions[i].payee_name.k # "str"
                    /\ OtherwiseKept(transactions[i]))
                  => InSeq(transactions[i], filtered)
    /\ AggDone =>
          /\ \A t \in ListedIn(category_totals) : ~HasReconPayee(t)
          /\ category_totals =
                aggregate_by_category(SelectSeq(transactions, NotRecon)).ct
          /\ \A i \in 1..Len(transactions) :
                LET t == transactions[i]
                IN  (t.payee_name.k # "str" /\ ~HasTransferAccount(t)
                        /\ ~HasSubtransactions(t)
                        /\ ~HasInflowName(FiledUnder(t)))
                      => t \in ListedIn(category_totals)

\* a balance adjustment that nothing else excludes went through a filter
C9_Witness ==
    /\ FilterDone
    /\ \E i \in 1..Len(transactions) :
          /\ HasReconPayee(transactions[i])
          /\ ~ContainsAnyCase(reconciliation,
                              TextOf(transactions[i].payee_name))
          /\ OtherwiseKept(transactions[i])

----------------------------------------------------------------------------
(* C7 *)

CountIn(s, x) == Cardinality({i \in 1..Len(s) : s[i] = x})
SentReports == [i \in 1..Len(outbox) |-> outbox[i].report]

\* the run of report r has started and has neither sent nor failed yet
InProgress(r) ==
    /\ report = r
    /\ pc # "except" => \A i \in 1..Len(steps) : steps[i].step # "send_email"
Unsettled == Cardinality({r \in Reports : InProgress(r)})

\* C7: a failure at any step aborts only its own run: the exception never
\* leaves the report function, and every report main or the scheduler has
\* planned is accounted for, either sent, or logged as failed, or in
\* progress, or still to run.
C7_FailureAbortsOnlyItsRun ==
    /\ op = "main" => pc # "crashed"
    /\ (op = "main" /\ command # "scheduler") =>
          \A r \in Reports :
              CountIn(SentReports, r) + CountIn(log, r)
                + CountIn(pending, r) + (IF InProgress(r) THEN 1 ELSE 0)
                  = CountIn(CommandRuns(command), r)
    /\ (op = "main" /\ command = "scheduler") =>
          Len(outbox) + Len(log) + Len(pending) + Unsettled = runs

\* in the test command the daily and weekly runs failed and the monthly
\* report was sent all the same
C7_Witness ==
    /\ command = "test" /\ pc = "exit"
    /\ log = <<"daily", "weekly">>
    /\ SentReports = <<"monthly">>

----------------------------------------------------------------------------
(* C8 *)

Week == get_last_week_transactions(
            client_get_transactions(transactions, MinusDays(today, 7)))
Month == get_last_month_transactions(
            client_get_transactions(transactions, first_of_last_month(today)),
            today)
Uncat == get_uncategorized_transactions(
            client_get_transactions(transactions, MinusDays(today, 30)))

\* the complete report of kind r for the ledger and the budget
WholeReport(r) ==
    CASE r = "daily" ->
            generate_daily_alert(
                Uncat, get_category_status(categories, threshold), threshold)
      [] r = "weekly" ->
            generate_weekly_recap(
                Week, aggregate_by_category(Week).ct,
                get_category_status(categories, threshold))
      [] OTHER ->
            generate_monthly_recap(Month, aggregate_by_category(Month).ct,
                                   today)

IsFetch(name) ==
    name \in {"get_uncategorized_transactions", "get_last_week_transactions",
              "get_last_month_transactions", "get_category_status",
              "get_upcoming_scheduled_transactions",
              "get_recurring_scheduled_this_month"}
IsRender(name) ==
    name \in {"generate_daily_alert", "generate_weekly_recap",
              "generate_monthly_recap"}

\* C8: in a run the aggregation follows the fetch of its transactions, the
\* rendering follows every fetch and the aggregation, and the send is
\* attempted at most once, last, and only when every step before it has
\* completed without error; what is sent is the whole report.
C8_NoPartialReport ==
    op = "main" =>
        /\ \A i \in 1..Len(steps) :
              /\ steps[i].step = "aggregate_by_category" =>
                    \E j \in 1..(i - 1) : IsFetch(steps[j].step) /\ steps[j].ok
              /\ IsRender(steps[i].step) =>
                    \A j \in 1..Len(steps) :
                        (IsFetch(steps[j].step)
                            \/ steps[j].step = "aggregate_by_category")
                          => (j < i /\ steps[j].ok)
              /\ steps[i].step = "send_email" =>
                    /\ i = Len(steps)
                    /\ \A j \in 1..(i - 1) :
                          steps[j].ok /\ steps[j].step # "send_email"
                    /\ \E j \in 1..(i - 1) : IsRender(steps[j].step)
                    /\ \E j \in 1..(i - 1) : IsFetch(steps[j].step)
        /\ \A i \in 1..Len(outbox) :
              outbox[i].html = WholeReport(outbox[i].report)

\* a weekly recap with transactions in it has just been sent
C8_Witness ==
    /\ pc = "run" /\ report = "weekly"
    /\ Len(steps) = 6 /\ steps[6].step = "send_email" /\ steps[6].ok
    /\ filtered # <<>>
    /\ outbox # <<>>

----------------------------------------------------------------------------
(* C10 *)

\* the transaction with its own category name and amount blanked
Scrubbed(t) ==
    IF HasSubtransactions(t)
    THEN [t EXCEPT !.category_name = NullStr, !.amount = Int_(0)]
    ELSE t

\* what a transaction adds to the total spent when a split counts by its
\* non-inflow subtransactions
SpentOn(t) ==
    IF HasSubtransactions(t)
    THEN Abs(SumCounted(SubsOf(t)))
    ELSE Abs(t.amount.v)

RECURSIVE SpentOnAll(_)
SpentOnAll(txs) ==
    IF txs = <<>> THEN 0 ELSE SpentOn(Head(txs)) + SpentOnAll(Tail(txs))

InRange(t) ==
    IF report = "weekly"
    THEN ~DateLt(t.date, MinusDays(today, 7))
    ELSE <<t.date[1], t.date[2]>> = last_month_ym(today)

\* C10: in the weekly and monthly runs a split is kept by the filter
\* whatever its own category name, the category figures do not change when
\* its own category name and amount are blanked, and the total spent counts
\* it by its non-inflow subtransactions only.
C10_SplitParentIgnored ==
    (op = "main" /\ pc = "run" /\ bundle.kind \in {"weekly", "monthly"}) =>
        /\ \A i \in 1..Len(transactions) :
              LET t == transactions[i]
              IN  (HasSubtransactions(t) /\ InRange(t)) =>
                     (InSeq(t, filtered) <=>
                        (~HasTransferAccount(t) /\ ~HasReconPayee(t)
                            /\ ~HasSchedule(t)))
        /\ Figures(bundle.category_spending) =
              Figures(aggregate_by_category(MapSeq(filtered, Scrubbed)).ct)
        /\ bundle.total_spent = ToMajor(SpentOnAll(filtered))

----------------------------------------------------------------------------
(* C11 *)

SpendingViewDone ==
    /\ pc = "done"
    /\ op \in {"get_last_week_transactions", "get_last_month_transactions"}

\* no category id, or the category named "Uncategorized"
LacksCategory(t) ==
    \/ TextOf(t.category_id) = <<>>
    \/ TextOf(t.category_name) = Uncategorized

Reportable(t) ==
    /\ LacksCategory(t)
    /\ ~HasTransferAccount(t)
    /\ ~HasReconPayee(t)
    /\ ~HasInflowName(TextOf(t.category_name))

\* C11: no transaction with scheduled_transaction_id set is in the output
\* of get_last_week_transactions or get_last_month_transactions; in the
\* output of get_uncategorized_transactions is every uncategorized
\* transaction that is no transfer, reconciliation or inflow, with its
\* scheduled_transaction_id set or not, and nothing else.
C11_ScheduledOnlyInUncategorized ==
    /\ SpendingViewDone =>
          \A i \in 1..Len(filtered) : ~HasSchedule(filtered[i])
    /\ Done("get_uncategorized_transactions") =>
          /\ \A i \in 1..Len(transactions) :
                Reportable(transactions[i])
                    => InSeq(transactions[i], filtered)
          /\ \A i \in 1..Len(filtered) :
                Reportable(filtered[i]) /\ InSeq(filtered[i], transactions)

\* a scheduled transaction with a category id and the category name
\* "Uncategorized" was reported by get_uncategorized_transactions
C11_Witness ==
    /\ Done("get_uncategorized_transactions")
    /\ \E i \in 1..Len(filtered) :
          /\ HasSchedule(filtered[i])
          /\ TextOf(filtered[i].category_id) # <<>>
          /\ InSeq(filtered[i], transactions)

----------------------------------------------------------------------------
(* C12 *)

Missing(x) == x.k \in {"absent", "null"}

\* every optional field of the transaction is absent or None, and so is
\* the category name of some subtransaction when it has any
AllMissing(t) ==
    /\ Missing(t.payee_name) /\ Missing(t.category_id)
    /\ Missing(t.category_name) /\ Missing(t.transfer_account_id)
    /\ Missing(t.scheduled_transaction_id)
    /\ \/ Missing(t.subtransactions)
       \/ \E j \in 1..Len(t.subtransactions.v) :
             Missing(t.subtransactions.v[j].category_name)

UnderUncategorized(ct) ==
    IF Uncategorized \in DOMAIN ct
    THEN {ct[Uncategorized].transactions[i] :
            i \in 1..Len(ct[Uncategorized].transactions)}
    ELSE {}

\* C12: with payee name, category id, category name, transfer-account id,
\* scheduled-transaction id, the subtransaction list and a subtransaction's
\* category name absent or None in any combination, the three filters and
\* the aggregator end without an exception; a transaction without a payee
\* is kept like one with an empty payee, and a contribution without a
\* category name is filed under "Uncategorized".
C12_MissingFieldsTolerated ==
    /\ (FilterDone \/ Done("aggregate_by_category")) => ~raised
    /\ FilterDone =>
          \A i \in 1..Len(transactions) :
              (Missing(transactions[i].payee_name)
                  /\ OtherwiseKept(transactions[i]))
                => InSeq(transactions[i], filtered)
    /\ AggDone =>
          \A i \in 1..Len(transactions) :
              LET t == transactions[i]
              IN  (~HasTransferAccount(t) /\ ~HasReconPayee(t)) =>
                    IF HasSubtransactions(t)
                    THEN (\E j \in 1..Len(SubsOf(t)) :
                              Missing(SubsOf(t)[j].category_name))
                            => t \in UnderUncategorized(category_totals)
                    ELSE Missing(t.category_name)
                            => t \in UnderUncategorized(category_totals)

\* a split with every optional field missing and a subtransaction without
\* a category name was aggregated and filed under "Uncategorized"
C12_Witness ==
    /\ AggDone
    /\ \E i \in 1..Len(transactions) :
          /\ AllMissing(transactions[i])
          /\ HasSubtransactions(transactions[i])
          /\ transactions[i] \in UnderUncategorized(category_totals)

----------------------------------------------------------------------------
(* C13 *)

MonthlyDone == Done("generate_monthly_recap")

\* the entries of the overspent and warning lists, which carry percent_used
PercentEntries(st) ==
    {st.overspent[i] : i \in 1..Len(st.overspent)}
    \cup {st.warning[i] : i \in 1..Len(st.warning)}

\* the number is the quotient of two integers with a divisor that is not 0
IsNumber(x) == x.d > 0

\* the day before the first of this month, counted from the calendar
LastMonthLength ==
    MinusDays(<<today[1], today[2], 1>>, 1)[3]

\* C13: no division by zero: get_category_status ends with percent_used a
\* number in every entry, 0 when budgeted <= 0; generate_monthly_recap ends
\* without an exception with every figure a number, average-per-day 0 when
\* the month has no days, average-per-transaction and largest transaction
\* 0 for an empty list, and every top-category percentage 0 when the total
\* spent is 0.
C13_DivisionGuards ==
    /\ Done("get_category_status") =>
          \A e \in PercentEntries(category_status) :
              /\ IsNumber(e.percent_used)
              /\ e.budgeted.n <= 0 => e.percent_used = Zero
    /\ MonthlyDone =>
          /\ ~raised
          /\ IsNumber(bundle.avg_per_day)
          /\ IsNumber(bundle.avg_transaction)
          /\ IsNumber(bundle.largest_transaction)
          /\ LastMonthLength <= 0 => bundle.avg_per_day = Zero
          /\ transactions = <<>> =>
                /\ bundle.avg_transaction = Zero
                /\ bundle.largest_transaction = Zero
          /\ Len(bundle.top_categories) = Cardinality(DOMAIN category_totals)
          /\ \A i \in 1..Len(bundle.top_categories) :
                /\ IsNumber(bundle.top_categories[i].percentage)
                /\ bundle.total_spent = Zero =>
                      bundle.top_categories[i].percentage = Zero

\* a month whose transactions add up to a total spent of 0 while a
\* category has a total that is not 0
C13_Witness ==
    /\ MonthlyDone
    /\ transactions # <<>>
    /\ bundle.total_spent = Zero
    /\ \E i \in 1..Len(bundle.top_categories) :
          bundle.top_categories[i].total # Zero

----------------------------------------------------------------------------
(* C14 *)

RECURSIVE DaysBeforeMonth(_, _)
DaysBeforeMonth(y, m) ==
    IF m = 1 THEN 0 ELSE DaysInMonth(y, m - 1) + DaysBeforeMonth(y, m - 1)

RECURSIVE DaysBeforeYear(_)
DaysBeforeYear(y) ==
    IF y = 2024 THEN 0
    ELSE DaysBeforeMonth(y - 1, 12) + 31 + DaysBeforeYear(y - 1)

\* the days from 1 January 2024, a Monday, to the date, which is not
\* before it
DaysSinceFirst(date) ==
    DaysBeforeYear(date[1]) + DaysBeforeMonth(date[1], date[2]) + date[3] - 1

WeekFromMonday ==
    <<"Monday", "Tuesday", "Wednesday", "Thursday", "Friday", "Saturday",
      "Sunday">>
WeekSet == {WeekFromMonday[k] : k \in 1..7}

\* the weekday of each transaction of the list
WeekdaysOf(txs) ==
    [i \in 1..Len(txs) |-> WeekFromMonday[(DaysSinceFirst(txs[i].date) % 7) + 1]]

OnDay(days, day) == {i \in DOMAIN days : days[i] = day}
CountsOn(days) == [day \in WeekSet |-> Cardinality(OnDay(days, day))]

Busiest(days) ==
    LET n == CountsOn(days)
    IN  {day \in WeekSet : n[day] > 0 /\ \A other \in WeekSet : n[other] <= n[day]}

FirstOn(days, day) ==
    CHOOSE i \in OnDay(days, day) : \A j \in OnDay(days, day) : i <= j

\* C14: the most-active weekday of generate_monthly_recap is "N/A" for an
\* empty list; otherwise it is a weekday with the highest transaction
\* count, and of the weekdays with that count the one whose first
\* transaction is earliest in the list.
C14_MostActiveDay ==
    MonthlyDone =>
        IF transactions = <<>>
        THEN bundle.most_active_day = "N/A"
        ELSE LET days == WeekdaysOf(transactions)
                 busiest == Busiest(days)
             IN  /\ bundle.most_active_day \in busiest
                 /\ \A day \in busiest :
                       FirstOn(days, bundle.most_active_day)
                           <= FirstOn(days, day)

\* Monday and Tuesday tie for the highest count, the list begins with a
\* Tuesday and the answer is Tuesday
C14_Witness ==
    /\ MonthlyDone
    /\ Len(transactions) = 4
    /\ Busiest(WeekdaysOf(transactions)) = {"Monday", "Tuesday"}
    /\ WeekdaysOf(transactions)[1] = "Tuesday"
    /\ bundle.most_active_day = "Tuesday"

----------------------------------------------------------------------------
(* C15 *)

Countable(t) == ~HasTransferAccount(t) /\ ~HasReconPayee(t)

\* the contributions of t to the category: one when a countable non-split
\* transaction is filed under it, one per subtransaction of a countable
\* split filed under it; none to an inflow category
ContributionsTo(t, name) ==
    IF ~Countable(t) \/ HasInflowName(name) THEN 0
    ELSE IF HasSubtransactions(t) THEN Cardinality(SubsUnder(t, name))
    ELSE IF FiledUnder(t) = name THEN 1 ELSE 0

RECURSIVE AllContributionsTo(_, _)
AllContributionsTo(txs, name) ==
    IF txs = <<>> THEN 0
    ELSE ContributionsTo(Head(txs), name) + AllContributionsTo(Tail(txs), name)

RECURSIVE SumCounts(_, _)
SumCounts(ct, names) ==
    IF names = {} THEN 0
    ELSE LET n == CHOOSE x \in names : TRUE
         IN  ct[n].count + SumCounts(ct, names \ {n})

\* every category name a record of the input is filed under
NamesFiled(txs) ==
    UNION {IF HasSubtransactions(txs[i])
           THEN {FiledUnder(SubsOf(txs[i])[j]) : j \in 1..Len(SubsOf(txs[i]))}
           ELSE {FiledUnder(txs[i])} : i \in 1..Len(txs)}

RECURSIVE SumContributions(_, _)
SumContributions(txs, names) ==
    IF names = {} THEN 0
    ELSE LET n == CHOOSE x \in names : TRUE
         IN  AllContributionsTo(txs, n) + SumContributions(txs, names \ {n})

\* C15: in the output of aggregate_by_category every category has count
\* equal to the length of its transaction list and at least 1, its count
\* is the number of contributions to it (so a split with two
\* subtransactions in one category adds 2 and is listed twice), each
\* transaction is listed as often as it contributes, and the counts add
\* up to the number of counted contributions of the input.
C15_CountsAreContributions ==
    AggDone =>
        /\ \A name \in DOMAIN category_totals :
              /\ category_totals[name].count
                    = Len(category_totals[name].transactions)
              /\ category_totals[name].count >= 1
              /\ category_totals[name].count
                    = AllContributionsTo(transactions, name)
              /\ \A i \in 1..Len(transactions) :
                    ContributionsTo(transactions[i], name) > 0 =>
                        CountIn(category_totals[name].transactions,
                                transactions[i])
                          >= ContributionsTo(transactions[i], name)
        /\ SumCounts(category_totals, DOMAIN category_totals)
              = SumContributions(transactions, NamesFiled(transactions))

\* a countable split with two subtransactions in the same category was
\* aggregated, and its parent is listed twice under that category
C15_Witness ==
    /\ AggDone
    /\ \E i \in 1..Len(transactions) :
          LET t == transactions[i]
          IN  /\ Countable(t)
              /\ HasSubtransactions(t)
              /\ \E name \in DOMAIN category_totals :
                    /\ Cardinality(SubsUnder(t, name)) = 2
                    /\ CountIn(category_totals[name].transactions, t) = 2

----------------------------------------------------------------------------
(* C16 *)

\* a list a weekly or monthly filter can return, of non-split transactions
\* with amount <= 0
SpendingList(txs) ==
    \A i \in 1..Len(txs) :
        /\ ~HasSubtransactions(txs[i])
        /\ txs[i].amount.k = "int" /\ txs[i].amount.v <= 0
        /\ ~HasSchedule(txs[i])
        /\ ~HasTransferAccount(txs[i])
        /\ ~HasReconPayee(txs[i])
        /\ ~HasInflowName(TextOf(txs[i].category_name))

\* the orders in which the category totals can be added up
Orders(names) ==
    {o \in [1..Cardinality(names) -> names] :
        \A i, j \in 1..Cardinality(names) : o[i] = o[j] => i = j}

TotalsAsDoubles(txs, order) ==
    [i \in 1..Len(order) |-> total_f64(F64Zero, txs, order[i])]

\* the doubles the sum of the category totals can be
SumOfTotalsF64(txs) ==
    UNION {{sum_f64(F64Zero, TotalsAsDoubles(txs, o)),
            sum_f64_compensated([f |-> F64Zero, c |-> F64Zero],
                                TotalsAsDoubles(txs, o))} :
            o \in Orders(DOMAIN category_totals)}

CountsAgree ==
    bundle.transaction_count
        = SumCounts(bundle.category_spending, DOMAIN bundle.category_spending)

\* C16 as claimed, for the doubles the code computes: on a list of
\* non-split transactions with amount <= 0 the total spent is equal to the
\* sum of the category totals, the totals added up in some order by some
\* version of sum(), and the transaction count is the sum of the counts.
C16_AsClaimed ==
    (MonthlyDone /\ SpendingList(transactions)) =>
        /\ total_spent_f64(transactions) \cap SumOfTotalsF64(transactions) # {}
        /\ CountsAgree

\* C16 amended: on such a list the total spent and the sum of the category
\* totals are equal as exact sums of the amounts (the doubles agree up to
\* the rounding of their additions only), and the transaction count is
\* the sum of the category counts.
C16_TotalsAgreeExactly ==
    (MonthlyDone /\ SpendingList(transactions)) =>
        /\ bundle.total_spent = SumTotals(bundle.category_spending)
        /\ bundle.category_spending = category_totals
        /\ CountsAgree

\* three payments in two categories whose exact totals agree while no
\* double of the total spent is a double of the sum of the category totals
C16_Witness ==
    /\ MonthlyDone /\ SpendingList(transactions)
    /\ Len(transactions) = 3
    /\ Cardinality(DOMAIN category_totals) = 2
    /\ bundle.total_spent = SumTotals(bundle.category_spending)
    /\ bundle.total_spent # Zero
    /\ total_spent_f64(transactions) \cap SumOfTotalsF64(transactions) = {}

====
